---------------------------- MODULE Spec2Model ----------------------------
(***************************************************************************)
(* A model of the RAG question-answering pipeline of Node_RAG:             *)
(*   - the retriever agent (api/src/agents/retriever.ts) with its external *)
(*     reranker (api/src/user-query-reranker.ts),                          *)
(*   - the classifier agent (agents/classifier.ts),                        *)
(*   - the summariser and answerer agents,                                 *)
(*   - the two orchestrators the server can load (orchestrator-simple.ts   *)
(*     and the mock state graph of orchestrator-langgraph.ts).             *)
(* Every external service (embedding, vector index, reranker, chat model)  *)
(* is a nondeterministic choice over the replies it can give.              *)
(***************************************************************************)
EXTENDS Integers, Sequences, FiniteSets, TLC

VARIABLES
    cfgRerank,  \* reRankerConfig: [useReRanker, configured (endpoint and key set)]
    ret,        \* one retrieveDocuments call: its inputs, position and result
    cls,        \* one classifyQuestion call
    orch,       \* one orchestrator execution
    sum,        \* needsSummarization applied to a growing document list
    http,       \* one HTTP request to the API server
    conc,       \* two concurrent executions of the sequential orchestrator
    eq,         \* the sequential and the state-graph orchestrators run on the same events
    mr,         \* a call of mapReduceSummarize
    ing,        \* an invocation of ingestDocuments
    up          \* the UploadService of the browser client

vars == <<cfgRerank, ret, cls, orch, sum, http, conc, eq, mr, ing, up>>

(***************************************************************************)
(* Bounds of the model.                                                    *)
(***************************************************************************)
MaxHits == 3        \* most raw hits the index returns in the retriever runs
MaxK == 2           \* largest desiredCount of the retriever runs
MaxReply == 2       \* most (index, score) pairs in a reranker reply

SearchContents == {1, 2}    \* content strings the index can return
SimScores == {1, 2}         \* vector-similarity scores
RerankScores == {1, 3}      \* scores the reranker can give

Min(a, b) == IF a < b THEN a ELSE b
Max(a, b) == IF a > b THEN a ELSE b

\* Array.prototype.slice(0, n)
Take(s, n) == SubSeq(s, 1, Min(n, Len(s)))

(***************************************************************************)
(* SearchHit                                                               *)
(***************************************************************************)
\* Document i has id <<"doc", i>> and filename <<"file", i>>.
DocCategory(i) == IF i % 2 = 0 THEN "hr" ELSE "finance"

MkHit(i, content, score) ==
    [id |-> <<"doc", i>>, content |-> content, filename |-> <<"file", i>>,
     category |-> DocCategory(i), score |-> score]

\* The lists of at most n hits the index can return; hit i has id i.
RawHitLists(n) ==
    UNION { { [i \in 1..m |-> MkHit(i, f[i][1], f[i][2])] :
                f \in [1..m -> SearchContents \X SimScores] } : m \in 0..n }

(***************************************************************************)
(* retrieveDocuments, step 2.5: deduplicate by content.  A JavaScript Map  *)
(* keeps the insertion position of a key when its value is replaced.       *)
(***************************************************************************)
DedupPutKeepsFirst(acc, hit) ==
    IF \E i \in 1..Len(acc) : acc[i].content = hit.content
    THEN acc
    ELSE Append(acc, hit)

DedupPut(acc, hit) ==
    IF \E i \in 1..Len(acc) : acc[i].content = hit.content
    THEN [i \in 1..Len(acc) |->
            IF acc[i].content = hit.content /\ hit.score > acc[i].score
            THEN hit ELSE acc[i]]
    ELSE Append(acc, hit)

RECURSIVE DedupFrom(_, _)
DedupFrom(acc, hits) ==
    IF hits = <<>> THEN acc
    ELSE DedupFrom(DedupPut(acc, Head(hits)), Tail(hits))

Dedup(hits) == DedupFrom(<<>>, hits)

(***************************************************************************)
(* rerankWithAzure.  A reply of the reranker endpoint is a network error,  *)
(* a non-OK status, or a body whose results are any list of (index, score) *)
(* pairs: indexes may repeat or lie outside the request's document list.   *)
(***************************************************************************)
RerankResults(n) ==
    UNION { [1..m -> [index : 0..n, score : RerankScores]] : m \in 0..MaxReply }

RerankReplies(n) ==
    { [kind |-> "networkError", results |-> <<>>],
      [kind |-> "notOk", results |-> <<>>] }
    \cup { [kind |-> "ok", results |-> r] : r \in RerankResults(n) }

NoReply == [kind |-> "none", results |-> <<>>]

\* Array.prototype.sort((a, b) => b.score - a.score): stable, descending.
SortInsertAscending(sorted, x) ==
    LET n == Cardinality({ i \in 1..Len(sorted) : sorted[i].score <= x.score })
    IN SubSeq(sorted, 1, n) \o <<x>> \o SubSeq(sorted, n + 1, Len(sorted))

SortInsert(sorted, x) ==
    LET n == Cardinality({ i \in 1..Len(sorted) : sorted[i].score >= x.score })
    IN SubSeq(sorted, 1, n) \o <<x>> \o SubSeq(sorted, n + 1, Len(sorted))

RECURSIVE SortFrom(_, _)
SortFrom(acc, rest) ==
    IF rest = <<>> THEN acc
    ELSE SortFrom(SortInsert(acc, Head(rest)), Tail(rest))

SortByScoreDesc(results) == SortFrom(<<>>, results)

\* The reranker is called at all (line 52 is passed).
RerankerAvailable(cfg) == cfg.useReRanker /\ cfg.configured

\* return searchHits.slice(0, topK): lines 54, 115 and 155.
RerankFallbackAll(searchHits, topK) == searchHits

RerankFallback(searchHits, topK) == Take(searchHits, topK)

\* Lines 130-137: the hit with the reranker's score in place of its own.
RescoredKeepsHigher(hit, score) == [hit EXCEPT !.score = Max(hit.score, score)]

Rescored(hit, score) == [hit EXCEPT !.score = score]

\* What rerankWithAzure returns, and the path it took:
\*   "disabled"  line 52-55, "noInput" line 58-60, "empty" line 113-116,
\*   "fallback"  the catch of line 150-156, "reranked" line 148.
RerankWithAzure(searchHits, topK, cfg, reply) ==
    LET original == [hits |-> RerankFallback(searchHits, topK), path |-> "fallback"]
        top == Take(SortByScoreDesc(reply.results), topK)
    IN  IF ~RerankerAvailable(cfg)
        THEN [original EXCEPT !.path = "disabled"]
        ELSE IF Len(searchHits) = 0
        THEN [hits |-> <<>>, path |-> "noInput"]
        ELSE IF reply.kind # "ok"
        THEN original
        ELSE IF reply.results = <<>>
        THEN [original EXCEPT !.path = "empty"]
        ELSE IF \E i \in 1..Len(top) : top[i].index \notin 0..(Len(searchHits) - 1)
        THEN original
        ELSE [hits |-> [i \in 1..Len(top) |->
                          Rescored(searchHits[top[i].index + 1], top[i].score)],
              path |-> "reranked"]

(***************************************************************************)
(* retrieveDocuments                                                       *)
(***************************************************************************)
\* options.useReRanker ?? reRankerConfig.useReRanker
UseReRanker(opt, cfg) == IF opt = "undefined" THEN cfg.useReRanker ELSE opt = "true"

\* useReRanker ? Math.max(50, k * 10) : k
SearchLimit(useReRanker, k) == IF useReRanker THEN Max(50, k * 10) ELSE k

\* if (options.minScore) finalResults = finalResults.filter(...)
ScoreAtLeast(minScore, doc) == doc.score >= minScore

MinScoreFilter(docs, minScore) ==
    IF minScore = 0 THEN docs
    ELSE SelectSeq(docs, LAMBDA doc : ScoreAtLeast(minScore, doc))

\* Lines 105-123 from the deduplicated hits on.
RankAndFilter(deduplicatedHits, k, useReRanker, cfg, reply, minScore) ==
    LET ranked == IF useReRanker /\ Len(deduplicatedHits) > 0
                  THEN RerankWithAzure(deduplicatedHits, k, cfg, reply)
                  ELSE [hits |-> Take(deduplicatedHits, k), path |-> "builtin"]
    IN  [documents |-> MinScoreFilter(ranked.hits, minScore), path |-> ranked.path]

\* The whole function on a successful embedding and search.
RetrieveDocuments(rawHits, k, useReRanker, cfg, reply, minScore) ==
    RankAndFilter(Dedup(rawHits), k, useReRanker, cfg, reply, minScore).documents

(***************************************************************************)
(* Strings.  A string is a sequence of characters; " " is the only         *)
(* whitespace character that occurs.                                       *)
(***************************************************************************)
RECURSIVE TrimStart(_)
TrimStart(str) ==
    IF str # <<>> /\ Head(str) = " " THEN TrimStart(Tail(str)) ELSE str

RECURSIVE TrimEnd(_)
TrimEnd(str) ==
    IF str # <<>> /\ str[Len(str)] = " "
    THEN TrimEnd(SubSeq(str, 1, Len(str) - 1)) ELSE str

\* String.prototype.trim
Trim(str) == TrimEnd(TrimStart(str))

\* The questions of the runs: empty, blank, and two with text.
Questions == { <<>>, <<" ">>, <<"q">>, <<" ", "q">> }

(***************************************************************************)
(* classifyQuestion.  Confidence is counted in tenths (6 is 0.6).          *)
(***************************************************************************)
Categories == {"hr", "trading", "technical", "general", "finance", "compliance"}
Complexities == {"simple", "moderate", "complex"}

MIN_CONFIDENCE_TENTHS == 6
RETRY_ATTEMPTS == 3

\* Objects that pass classificationSchema.parse.
ValidPayloads ==
    [category : Categories, complexity : Complexities, confidence : {5, 6, 9},
     reasoning : {"model reasoning"}]

\* What one attempt of classifyWithRetry can meet: the API call rejects, the
\* 10 s timer wins the race, the reply has no choices array (a TypeError), the
\* content is empty, is not JSON, is JSON the schema rejects, or is valid.
FailureKinds == {"apiError", "timeout", "noChoices", "noContent", "badJson", "invalid"}

NoPayload == [category |-> "none", complexity |-> "none", confidence |-> 0,
              reasoning |-> "none"]

Failure(kind) == [kind |-> kind, payload |-> NoPayload]
Valid(payload) == [kind |-> "valid", payload |-> payload]

AttemptOutcomes ==
    { Failure(kind) : kind \in FailureKinds } \cup { Valid(p) : p \in ValidPayloads }

ClsIdle ==
    [phase |-> "idle", question |-> <<>>, strict |-> FALSE, attempt |-> 0,
     calls |-> 0, failures |-> 0, firstFailure |-> "none", abandoned |-> 0,
     validated |-> NoPayload, result |-> NoPayload]

\* callContentSafety
CallContentSafety(question) == ~(question = <<>> \/ Len(Trim(question)) = 0)

CreateFallbackResult(reasoning) ==
    [category |-> "general", complexity |-> "moderate", confidence |-> 5,
     reasoning |-> reasoning]

\* Lines 84-102: the guardrails, then the first attempt of the first round.
ClsStarted(question) ==
    IF ~CallContentSafety(question)
    THEN [ClsIdle EXCEPT !.phase = "done", !.question = question,
                         !.result = CreateFallbackResult("Content safety violation")]
    ELSE [ClsIdle EXCEPT !.phase = "calling", !.question = question,
                         !.attempt = 1, !.calls = 1]

\* Lines 109-150: confidence calibration and the success case.
CalibratedInclusive(validated) ==
    IF validated.confidence <= MIN_CONFIDENCE_TENTHS
    THEN [category |-> "general", complexity |-> "moderate",
          confidence |-> validated.confidence, reasoning |-> "Low confidence fallback"]
    ELSE validated

Calibrated(validated) ==
    IF validated.confidence < MIN_CONFIDENCE_TENTHS
    THEN [category |-> "general", complexity |-> "moderate",
          confidence |-> validated.confidence, reasoning |-> "Low confidence fallback"]
    ELSE validated

\* The catch of lines 152-156.
OuterCatchRethrows(c) == [c EXCEPT !.phase = "threw"]

OuterCatch(c) ==
    [c EXCEPT !.phase = "done", !.result = CreateFallbackResult("Fallback classification")]

\* pRetry rejects: lines 103-107 start the strict round, whose rejection
\* reaches the outer catch.
RoundRejectedStartsOver(c) ==
    [c EXCEPT !.strict = TRUE, !.attempt = 1, !.calls = 1, !.failures = 0,
               !.abandoned = 0]

RoundRejected(c) ==
    IF ~c.strict
    THEN [c EXCEPT !.strict = TRUE, !.attempt = 1, !.calls = c.calls + 1]
    ELSE OuterCatch(c)

\* p-retry with retries: RETRY_ATTEMPTS runs the function again after a failed
\* attempt while retries are left; a TypeError that is no network error ends
\* the round at once.
AttemptFailedGivesUp(c, outcome) == OuterCatch(c)

AttemptFailedRetriesAgain(c, outcome) ==
    [c EXCEPT !.attempt = c.attempt + 1, !.calls = c.calls + 1]

AttemptFailed(c, outcome) ==
    IF outcome.kind # "noChoices" /\ c.attempt <= RETRY_ATTEMPTS
    THEN [c EXCEPT !.attempt = c.attempt + 1, !.calls = c.calls + 1]
    ELSE RoundRejected(c)

\* One attempt of classifyWithRetry ends with `outcome`.  When the timer wins
\* Promise.race the attempt rejects while its API call stays pending: nothing
\* aborts it, and it counts as abandoned until the service settles it.
ClsAfter(c, outcome) ==
    IF outcome.kind = "valid"
    THEN [c EXCEPT !.phase = "done", !.validated = outcome.payload,
                   !.result = Calibrated(outcome.payload)]
    ELSE AttemptFailed([c EXCEPT !.failures = c.failures + 1,
                                 !.firstFailure = IF c.failures = 0
                                                  THEN outcome.kind ELSE @,
                                 !.abandoned = IF outcome.kind = "timeout"
                                               THEN @ + 1 ELSE @],
                       outcome)

\* classifyQuestion to its end, the attempts meeting script[1], script[2], ...
RECURSIVE ClassifyRun(_, _)
ClassifyRun(c, script) ==
    IF c.phase # "calling" \/ script = <<>> THEN c
    ELSE ClassifyRun(ClsAfter(c, Head(script)), Tail(script))

\* The most chat-model calls of one classifyQuestion: two rounds of pRetry.
MaxClassifierCalls == 2 * (RETRY_ATTEMPTS + 1)

ClassifyStart ==
    /\ cls.phase = "idle"
    /\ \E question \in Questions : cls' = ClsStarted(question)
    /\ UNCHANGED <<cfgRerank, ret, orch, sum, http, conc, eq, mr, ing, up>>

ClassifyAttemptReturns ==
    /\ cls.phase = "calling"
    /\ \E outcome \in AttemptOutcomes : cls' = ClsAfter(cls, outcome)
    /\ UNCHANGED <<cfgRerank, ret, orch, sum, http, conc, eq, mr, ing, up>>

\* The service settles a chat call whose attempt had timed out; its result is
\* dropped.
AbandonedCallSettles ==
    /\ cls.abandoned > 0
    /\ cls' = [cls EXCEPT !.abandoned = @ - 1]
    /\ UNCHANGED <<cfgRerank, ret, orch, sum, http, conc, eq, mr, ing, up>>

\* The chat calls of the request that are pending at the service.
CallsInFlight(c) == c.abandoned + (IF c.phase = "calling" THEN 1 ELSE 0)

(***************************************************************************)
(* The chat model.  A reply is an error or a completion whose content is a *)
(* string; <<>> stands for a missing or empty content.                     *)
(***************************************************************************)
\* A text is a sequence of tokens: a blank, a word, or a bracketed citation
\* marker [n].
ChatContents ==
    { <<>>, <<" ">>, <<"a">>, <<" ", "a", " ">>, <<"a", "[1]">>, <<"a", "[17]">> }

\* The number n of a token that matches /\[\d+\]/, 0 for any other token.
MarkerIndex(token) ==
    CASE token = "[1]" -> 1
      [] token = "[17]" -> 17
      [] OTHER -> 0

ChatReplies ==
    { [kind |-> "error", content |-> <<>>] }
    \cup { [kind |-> "ok", content |-> c] : c \in ChatContents }

\* !value for a string
Truthy(str) == str # <<>>

(***************************************************************************)
(* needsSummarization and summarizeDocuments                               *)
(***************************************************************************)
LARGE_SET_THRESHOLD == 10
COMPLEX_SET_THRESHOLD == 5
TOKEN_BUDGET == 8000
CHARS_PER_TOKEN == 4

\* doc.content.length: content 0 is a long text, every other one a short text.
LongDocChars == 32001
ShortDocChars == 100
NearLongDocChars == 31900
\* doc.content.length: content 0 is the long text, content -1 the text just
\* short of the token budget, every other content a short text.
ContentLength(content) ==
    CASE content = 0 -> LongDocChars
      [] content = -1 -> NearLongDocChars
      [] OTHER -> ShortDocChars

RECURSIVE TotalChars(_)
TotalChars(documents) ==
    IF documents = <<>> THEN 0
    ELSE ContentLength(Head(documents).content) + TotalChars(Tail(documents))

EstimateTokenCountFloor(documents) == TotalChars(documents) \div CHARS_PER_TOKEN

\* Math.ceil(totalChars / 4)
EstimateTokenCount(documents) ==
    (TotalChars(documents) + CHARS_PER_TOKEN - 1) \div CHARS_PER_TOKEN

NeedsSummarizationFlipped(documents, complexity) ==
    IF Len(documents) > LARGE_SET_THRESHOLD THEN TRUE
    ELSE IF complexity = "complex" /\ Len(documents) < COMPLEX_SET_THRESHOLD THEN TRUE
    ELSE IF EstimateTokenCount(documents) > TOKEN_BUDGET THEN TRUE
    ELSE FALSE

NeedsSummarization(documents, complexity) ==
    IF Len(documents) > LARGE_SET_THRESHOLD THEN TRUE
    ELSE IF complexity = "complex" /\ Len(documents) > COMPLEX_SET_THRESHOLD THEN TRUE
    ELSE IF EstimateTokenCount(documents) > TOKEN_BUDGET THEN TRUE
    ELSE FALSE

\* needsSummarization called on a document list, and again on the list with
\* one more document.
MaxSumDocs == 12

SumIdle == [phase |-> "idle", complexity |-> "none", documents |-> <<>>, needs |-> FALSE]

SumCalled(documents, complexity) ==
    [phase |-> "called", complexity |-> complexity, documents |-> documents,
     needs |-> NeedsSummarization(documents, complexity)]

NeedsFirstCall ==
    /\ sum.phase = "idle"
    /\ \E complexity \in Complexities :
       \E documents \in {<<>>} \cup { <<MkHit(1, c, 2)>> : c \in {0, -1, 1} } :
         sum' = SumCalled(documents, complexity)
    /\ UNCHANGED <<cfgRerank, ret, cls, orch, http, conc, eq, mr, ing, up>>

NeedsCallWithMore ==
    /\ sum.phase = "called"
    /\ Len(sum.documents) < MaxSumDocs
    /\ \E c \in {-1, 1} :
         sum' = SumCalled(Append(sum.documents, MkHit(Len(sum.documents) + 1, c, 2)),
                          sum.complexity)
    /\ UNCHANGED <<cfgRerank, ret, cls, orch, http, conc, eq, mr, ing, up>>

\* Lines 93-96: a summary is accepted when its content is not empty.
SummaryAcceptedAlways(content) == TRUE

SummaryAccepted(content) == Truthy(content)

\* The chat calls of mapReduceSummarize: one per group of 10, one to combine.
SummarizerCallsMapReduce(documents) ==
    IF Len(documents) <= LARGE_SET_THRESHOLD THEN 1
    ELSE ((Len(documents) + 9) \div 10) + 1

\* The chat calls summarizeDocuments issues for a document list.
SummarizerCalls(documents) == 1

\* summarizeDocuments: the summary, or the error it throws.
SummarizeDocuments(reply) ==
    IF reply.kind = "error"
    THEN [ok |-> FALSE, summarizedContext |-> <<>>,
          error |-> <<"Summarization failed", "chat completion failed">>]
    ELSE IF ~SummaryAccepted(reply.content)
    THEN [ok |-> FALSE, summarizedContext |-> <<>>,
          error |-> <<"Summarization failed", "No summary generated">>]
    ELSE [ok |-> TRUE, summarizedContext |-> reply.content, error |-> <<>>]

(***************************************************************************)
(* generateAnswer                                                          *)
(***************************************************************************)
\* includeText !== false
ShouldIncludeText(includeText) == includeText # "false"

\* buildGroundedPromptFromDocs: the citation of the source numbered [i].
DocCitation(doc, includeText) ==
    [id |-> doc.id, score |-> doc.score, filename |-> doc.filename,
     category |-> doc.category,
     snippet |-> IF includeText THEN <<"snippet", doc.content>> ELSE <<"absent", 0>>]

\* buildGroundedPromptFromSummary: the single synthetic citation.
SummaryCitation ==
    [id |-> <<"summarized", 0>>, score |-> 1,
     filename |-> <<"Multiple documents (summarized)", 0>>,
     category |-> "Summary", snippet |-> <<"absent", 0>>]

\* Lines 50-52: documents ? ...FromDocs : ...FromSummary (an empty array is truthy).
CitationsForReversed(input) ==
    IF input.hasDocuments
    THEN [i \in 1..Len(input.documents) |->
            DocCitation(input.documents[Len(input.documents) + 1 - i],
                        ShouldIncludeText(input.includeText))]
    ELSE <<SummaryCitation>>

CitationsFor(input) ==
    IF input.hasDocuments
    THEN [i \in 1..Len(input.documents) |->
            DocCitation(input.documents[i], ShouldIncludeText(input.includeText))]
    ELSE <<SummaryCitation>>

\* generateAnswer: the answer with its citations, or the error it throws.
GenerateAnswer(input, reply) ==
    IF reply.kind = "error"
    THEN [ok |-> FALSE, answer |-> <<>>, citations |-> <<>>,
          error |-> <<"Answer generation failed", "chat completion failed">>]
    ELSE IF ~Truthy(reply.content)
    THEN [ok |-> FALSE, answer |-> <<>>, citations |-> <<>>,
          error |-> <<"Answer generation failed", "No answer generated">>]
    ELSE [ok |-> TRUE, answer |-> Trim(reply.content),
          citations |-> CitationsFor(input), error |-> <<>>]

\* The state of an orchestrator execution before execute() is called.
NoAnswerInput ==
    [hasDocuments |-> FALSE, documents |-> <<>>, hasSummary |-> FALSE,
     summarizedContext |-> <<>>, includeText |-> "undefined", category |-> "none"]

\* The external calls one request has issued so far, by service.
NoExternalCalls ==
    [classify |-> 0, embed |-> 0, search |-> 0, rerank |-> 0,
     summarize |-> 0, answer |-> 0]

NoResult ==
    [answer |-> <<>>, citations |-> <<>>, category |-> "none", complexity |-> "none",
     documentsRetrieved |-> 0, usedSummarization |-> FALSE]

OrchIdle ==
    [pc |-> "idle", variant |-> "simple", question |-> <<>>, maxResults |-> 0,
     includeText |-> "undefined", classification |-> NoPayload, documents |-> <<>>,
     shouldSummarize |-> FALSE, summarizedContext |-> <<>>, answerInput |-> NoAnswerInput,
     stages |-> <<>>, calls |-> <<>>, result |-> NoResult,
     stageError |-> <<>>, error |-> <<>>, external |-> NoExternalCalls]

(***************************************************************************)
(* The API server: express.json(), the request-id middleware and the       *)
(* routes, in the order they are registered.                               *)
(***************************************************************************)
Routes ==
    {"/health", "/api/classify", "/api/retrieve", "/api/summarise", "/api/answer",
     "/api/ask", "/query"}

NoResponse ==
    [status |-> 0, error |-> "none", details |-> FALSE, requestId |-> "absent",
     header |-> "absent", payload |-> "none"]

HttpIdle ==
    [phase |-> "idle", route |-> "none", header |-> "absent", body |-> "none",
     hasContext |-> FALSE, requestId |-> "none", agents |-> <<>>, res |-> NoResponse]

\* The agent a route's handler calls first.
FirstAgent(route) ==
    CASE route = "/api/classify" -> "classifier"
      [] route = "/api/retrieve" -> "retriever"
      [] route = "/api/summarise" -> "summariser"
      [] route = "/api/answer" -> "answerer"
      [] route = "/api/ask" -> "orchestrator"
      [] route = "/query" -> "retriever"
      [] OTHER -> "none"

\* req.headers['x-request-id'] || uuidv4()
RequestId(header) == IF header = "absent" THEN "generated" ELSE header

\* res.status(status).json({ error, details?, requestId }) after the
\* middleware has set the X-Request-ID header.
ErrorResponse(h, status, error, details) ==
    [h EXCEPT !.phase = "responded",
              !.res = [status |-> status, error |-> error, details |-> details,
                       requestId |-> h.requestId, header |-> h.requestId,
                       payload |-> "none"]]

\* A request arrives.  express.json() runs first: a body that is not JSON
\* makes it pass an error to Express, whose default handler answers 400
\* before the request-id middleware has run.  Otherwise the middleware fixes
\* the request id and sets the response header.
HttpReceive ==
    /\ http.phase = "idle"
    /\ \E route \in Routes, header \in {"absent", "client-a", "client-b"},
          body \in {"malformed", "invalid", "valid"}, hasContext \in BOOLEAN :
         /\ route = "/health" => body = "valid" /\ ~hasContext
         /\ body # "valid" => ~hasContext
         /\ http' = IF body = "malformed"
                    THEN [http EXCEPT !.phase = "responded", !.route = route,
                                      !.header = header, !.body = body,
                                      !.res = [NoResponse EXCEPT !.status = 400,
                                                  !.error = "Bad Request"]]
                    ELSE [http EXCEPT !.phase = "routed", !.route = route,
                                      !.header = header, !.body = body,
                                      !.hasContext = hasContext,
                                      !.requestId = RequestId(header),
                                      !.res = [NoResponse EXCEPT
                                                  !.header = RequestId(header)]]
    /\ UNCHANGED <<cfgRerank, ret, cls, orch, sum, conc, eq, mr, ing, up>>

\* The route's handler runs up to its first await or its response.
HttpHandle ==
    /\ http.phase = "routed"
    /\ http' =
         IF http.route = "/health"
         THEN [http EXCEPT !.phase = "responded",
                           !.res = [@ EXCEPT !.status = 200, !.payload = "health"]]
         ELSE IF http.body = "invalid"
         THEN ErrorResponse(http, 400, "Invalid request", TRUE)
         ELSE IF http.route = "/api/answer" /\ ~http.hasContext
         THEN ErrorResponse(http, 400,
                            "Either documents or summarizedContext must be provided",
                            FALSE)
         ELSE [http EXCEPT !.phase = "awaiting",
                           !.agents = <<FirstAgent(http.route)>>]
    /\ UNCHANGED <<cfgRerank, ret, cls, orch, sum, conc, eq, mr, ing, up>>

\* The awaited agent returns: the handler responds, or (legacy /query) goes
\* on to the answerer when documents were found.
HttpAgentReturns ==
    /\ http.phase = "awaiting"
    /\ \E documents \in {0, 2} :
         http' =
           IF http.route = "/query" /\ http.agents = <<"retriever">>
           THEN IF documents = 0
                THEN ErrorResponse(http, 404, "No relevant documents found", FALSE)
                ELSE [http EXCEPT !.agents = Append(@, "answerer")]
           ELSE [http EXCEPT !.phase = "responded",
                             !.res = [@ EXCEPT !.status = 200, !.payload = "result",
                                               !.requestId = http.requestId]]
    /\ UNCHANGED <<cfgRerank, ret, cls, orch, sum, conc, eq, mr, ing, up>>

\* The awaited agent throws: the catch of the handler answers 500.
HttpAgentThrows ==
    /\ http.phase = "awaiting"
    /\ http' = ErrorResponse(http, 500, "Internal server error", FALSE)
    /\ UNCHANGED <<cfgRerank, ret, cls, orch, sum, conc, eq, mr, ing, up>>

(***************************************************************************)
(* Two requests served concurrently by executeRAGPipeline of the           *)
(* sequential orchestrator.  Each call of execute has its own frame of     *)
(* local variables; the module-level orchestratorInstance is shared.       *)
(***************************************************************************)
\* new SimpleRAGOrchestrator(): the configuration the constructor stores.
NewOrchestrator == [maxRetries |-> 2, timeoutMs |-> 30000, enableLogging |-> TRUE]

NoOrchestrator == [maxRetries |-> 0, timeoutMs |-> 0, enableLogging |-> FALSE]

\* getOrchestrator(): creates the instance on the first call only.
GetOrchestrator(instance) ==
    IF instance = NoOrchestrator THEN NewOrchestrator ELSE instance

ConcIdle ==
    [instance |-> NoOrchestrator,
     frame |-> [r \in 1..2 |-> OrchIdle],
     events |-> [r \in 1..2 |-> <<>>]]

\* The three orchestrators before execute() is called.
EquivIdle == [simple |-> OrchIdle, mock |-> OrchIdle, graph |-> OrchIdle]

\* mapReduceSummarize before it is called: no chunk, no call.
MrIdle ==
    [pc |-> "idle", documents |-> <<>>, chunks |-> <<>>, started |-> 0,
     completed |-> 0, chunkSummaries |-> <<>>, chunkFailed |-> FALSE,
     reduceCalls |-> 0, originalDocCount |-> 0, summarizedContext |-> <<>>,
     error |-> <<>>]

\* withRetry before it is called, and ingestDocuments before the blob trigger.
NoRetry ==
    [pc |-> "idle", maxRetries |-> 0, delayMs |-> 0, attempt |-> 0, calls |-> 0,
     errors |-> <<>>, waits |-> <<>>, result |-> <<>>, thrown |-> <<>>]

IngIdle == [pc |-> "idle", error |-> <<>>, retry |-> NoRetry]

\* UploadService after construction: no file, isUploading false, no error,
\* no upload subscribed.
UpIdle == [status |-> <<>>, isUploading |-> FALSE, error |-> <<>>, active |-> {}]

\* The reranker configuration of the process (USE_RERANKER, endpoint, key).
RerankConfigs == [useReRanker : BOOLEAN, configured : BOOLEAN]

\* minScore option: 0 stands for an absent (or zero) option, which line 121 skips.
MinScoreOptions == {0, 2}

RetIdle ==
    [phase |-> "idle", k |-> 0, useReRanker |-> FALSE, minScore |-> 0,
     rawHits |-> <<>>, deduplicatedHits |-> <<>>, reply |-> NoReply,
     documents |-> <<>>, path |-> "none", error |-> <<>>]

\* Lines 44-52: the options are read and embedQuery is called.
RetrieveStart ==
    /\ ret.phase = "idle"
    /\ \E k \in 1..MaxK, opt \in {"undefined", "true", "false"}, m \in MinScoreOptions :
         ret' = [ret EXCEPT !.phase = "embedding", !.k = k, !.minScore = m,
                            !.useReRanker = UseReRanker(opt, cfgRerank)]
    /\ UNCHANGED <<cfgRerank, cls, orch, sum, http, conc, eq, mr, ing, up>>

\* Line 52 returns a vector; line 56 issues the search.
EmbedQueryReturns ==
    /\ ret.phase = "embedding"
    /\ ret' = [ret EXCEPT !.phase = "searching"]
    /\ UNCHANGED <<cfgRerank, cls, orch, sum, http, conc, eq, mr, ing, up>>

\* embedQuery or the search throws: the catch of lines 143-146 rethrows.
RetrieveThrows ==
    /\ ret.phase \in {"embedding", "searching"}
    /\ ret' = [ret EXCEPT !.phase = "failed",
                          !.error = <<"Document retrieval failed", ret.phase>>]
    /\ UNCHANGED <<cfgRerank, cls, orch, sum, http, conc, eq, mr, ing, up>>

\* Lines 69-118: the hits arrive (at most `top` of them), are deduplicated, and
\* either the reranker request is sent or the result is finished at once.
SearchReturns ==
    /\ ret.phase = "searching"
    /\ \E raw \in RawHitLists(Min(MaxHits, SearchLimit(ret.useReRanker, ret.k))) :
         LET dedup == Dedup(raw)
             fetch == ret.useReRanker /\ Len(dedup) > 0 /\ RerankerAvailable(cfgRerank)
             out == RankAndFilter(dedup, ret.k, ret.useReRanker, cfgRerank,
                                  NoReply, ret.minScore)
         IN  ret' = IF fetch
                    THEN [ret EXCEPT !.phase = "reranking", !.rawHits = raw,
                                     !.deduplicatedHits = dedup]
                    ELSE [ret EXCEPT !.phase = "done", !.rawHits = raw,
                                     !.deduplicatedHits = dedup,
                                     !.documents = out.documents, !.path = out.path]
    /\ UNCHANGED <<cfgRerank, cls, orch, sum, http, conc, eq, mr, ing, up>>

\* Lines 89-156 of the reranker and 113-141 of the retriever: the reply arrives.
RerankReturns ==
    /\ ret.phase = "reranking"
    /\ \E reply \in RerankReplies(Len(ret.deduplicatedHits)) :
         LET out == RankAndFilter(ret.deduplicatedHits, ret.k, ret.useReRanker,
                                  cfgRerank, reply, ret.minScore)
         IN  ret' = [ret EXCEPT !.phase = "done", !.reply = reply,
                                !.documents = out.documents, !.path = out.path]
    /\ UNCHANGED <<cfgRerank, cls, orch, sum, http, conc, eq, mr, ing, up>>


InitRetrieve ==
    /\ cfgRerank \in RerankConfigs
    /\ ret = RetIdle
    /\ cls = ClsIdle
    /\ orch = OrchIdle
    /\ sum = SumIdle
    /\ http = HttpIdle
    /\ conc = ConcIdle
    /\ eq = EquivIdle
    /\ mr = MrIdle
    /\ ing = IngIdle
    /\ up = UpIdle

NextRetrieve ==
    \/ RetrieveStart
    \/ EmbedQueryReturns
    \/ RetrieveThrows
    \/ SearchReturns
    \/ RerankReturns

SpecRetrieve == InitRetrieve /\ [][NextRetrieve]_vars

(***************************************************************************)
(* Claims about retrieveDocuments (under SpecRetrieve).                    *)
(***************************************************************************)
Returned == ret.phase = "done"

NoDuplicateContent(docs) ==
    \A i, j \in 1..Len(docs) : i # j => docs[i].content # docs[j].content

\* C1: retrieveDocuments returns at most k documents and no two returned
\* documents have the same content, whatever the index and the reranker reply.
C1_AtMostKAndDistinct ==
    Returned => /\ Len(ret.documents) <= ret.k
                /\ NoDuplicateContent(ret.documents)

\* The reranker was asked and its call failed: the catch of line 150 or the
\* empty-reply branch of line 113 was taken.
RerankFailed == ret.path \in {"fallback", "empty"}

\* Replies that are failures whatever k is: an error, a non-OK status, no
\* results, or results whose indexes are all outside the request.
FailureReply(reply, n) ==
    \/ reply.kind \in {"networkError", "notOk"}
    \/ reply.kind = "ok" /\ reply.results = <<>>
    \/ reply.kind = "ok" /\ \A i \in 1..Len(reply.results) :
                               reply.results[i].index \notin 0..(n - 1)

\* C2: when reranking is enabled and the reranker call fails, retrieval does
\* not fail; it returns the first k deduplicated hits in their original order
\* (less those under the caller's minScore, when one is given).
C2_RerankFailureFallsBack ==
    /\ ret.phase = "failed" => ret.error[2] \in {"embedding", "searching"}
    /\ ret.phase = "reranking" => ENABLED RerankReturns
    /\ Returned /\ ret.reply # NoReply /\ FailureReply(ret.reply, Len(ret.deduplicatedHits))
         => RerankFailed
    /\ Returned /\ RerankFailed =>
         /\ ret.documents =
              SelectSeq(SubSeq(ret.deduplicatedHits, 1, Min(ret.k, Len(ret.deduplicatedHits))),
                        LAMBDA d : ret.minScore = 0 \/ d.score >= ret.minScore)
         /\ Len(ret.documents) <= ret.k
         /\ ret.minScore = 0 =>
              Len(ret.documents) = Min(ret.k, Len(ret.deduplicatedHits))

\* A fallback after an in-range and an out-of-range index, with more
\* deduplicated hits than k.
C2_Witness ==
    /\ Returned /\ ret.path = "fallback" /\ ret.reply.kind = "ok"
    /\ Len(ret.deduplicatedHits) > ret.k
    /\ Len(ret.documents) = ret.k

RerankingDisabled == ~ret.useReRanker \/ ~RerankerAvailable(cfgRerank)

\* C3 as stated: with reranking disabled the result is the raw hit list
\* truncated to k.
C3_RawOrderTruncated ==
    Returned /\ RerankingDisabled => ret.documents = Take(ret.rawHits, ret.k)

\* The raw positions that hold the first occurrence of their content.
FirstOccurrences(raw) ==
    { i \in 1..Len(raw) : \A j \in 1..(i - 1) : raw[j].content # raw[i].content }

\* The earliest hit among the highest-scoring hits with content c.
BestWithContent(raw, c) ==
    LET same == { i \in 1..Len(raw) : raw[i].content = c }
        best == { i \in same : \A j \in same : raw[j].score <= raw[i].score }
    IN  raw[CHOOSE i \in best : \A j \in best : i <= j]

\* One hit per content, at the position of the content's first occurrence.
DistinctByContent(raw) ==
    LET first == FirstOccurrences(raw)
        nth(n) == CHOOSE i \in first : Cardinality({ j \in first : j <= i }) = n
    IN  [n \in 1..Cardinality(first) |-> BestWithContent(raw, raw[nth(n)].content)]

\* C3 amended: with reranking disabled the result is the raw hit list with
\* duplicate contents removed (the highest-scoring hit of each content, at the
\* place of the content's first hit), truncated to k, less the hits under
\* minScore; it is the raw list truncated to k when no content repeats and no
\* minScore is given.
C3_DedupedOrderTruncated ==
    Returned /\ RerankingDisabled =>
        /\ ret.documents =
             SelectSeq(Take(DistinctByContent(ret.rawHits), ret.k),
                       LAMBDA d : ret.minScore = 0 \/ d.score >= ret.minScore)
        /\ NoDuplicateContent(ret.rawHits) /\ ret.minScore = 0
             => ret.documents = Take(ret.rawHits, ret.k)

\* Reranking disabled, a repeated content whose later hit scores higher.
C3_Witness ==
    /\ Returned /\ RerankingDisabled
    /\ \E i, j \in 1..Len(ret.rawHits) :
         /\ i < j /\ ret.rawHits[i].content = ret.rawHits[j].content
         /\ ret.rawHits[i].score < ret.rawHits[j].score
    /\ Len(ret.documents) >= 1
    /\ ret.documents # Take(ret.rawHits, ret.k)

InitClassify ==
    /\ cfgRerank = [useReRanker |-> FALSE, configured |-> FALSE]
    /\ ret = RetIdle
    /\ cls = ClsIdle
    /\ orch = OrchIdle
    /\ sum = SumIdle
    /\ http = HttpIdle
    /\ conc = ConcIdle
    /\ eq = EquivIdle
    /\ mr = MrIdle
    /\ ing = IngIdle
    /\ up = UpIdle

NextClassify ==
    \/ ClassifyStart
    \/ ClassifyAttemptReturns
    \/ AbandonedCallSettles

SpecClassify == InitClassify /\ [][NextClassify]_vars

\* The score of a returned document comes from the reranker's reply: some
\* result names the document's position among the deduplicated hits and has
\* this score.
RerankScored(doc) ==
    \E j \in 1..Len(ret.reply.results) :
        /\ ret.reply.results[j].index + 1 \in 1..Len(ret.deduplicatedHits)
        /\ ret.deduplicatedHits[ret.reply.results[j].index + 1].id = doc.id
        /\ ret.reply.results[j].score = doc.score

\* The score of a returned document is its similarity score.
SimilarityScored(doc) ==
    \E j \in 1..Len(ret.deduplicatedHits) : ret.deduplicatedHits[j] = doc

\* C19: a returned list has one source of scores: after a successful
\* reranking every score is the reranker's, and without reranking or after a
\* fallback every score is the similarity score of the hit.
C19_SingleScoreSource ==
    Returned =>
        IF ret.path = "reranked"
        THEN \A i \in 1..Len(ret.documents) : RerankScored(ret.documents[i])
        ELSE \A i \in 1..Len(ret.documents) : SimilarityScored(ret.documents[i])

\* Two documents reranked, each with a reranker score that differs from its
\* similarity score.
C19_Witness ==
    /\ Returned /\ ret.path = "reranked" /\ Len(ret.documents) = 2
    /\ \A i \in 1..2 : ~SimilarityScored(ret.documents[i])
    /\ ret.documents[1].id # ret.documents[2].id

Descending(docs) ==
    \A i \in 1..(Len(docs) - 1) : docs[i].score >= docs[i + 1].score

\* C20: when the index returns its hits in descending similarity order, the
\* returned documents are in descending order of score, after deduplication,
\* reranking, fallback and the minimum-score filter.
C20_DescendingRelevance ==
    Returned /\ Descending(ret.rawHits) => Descending(ret.documents)

\* A reranking that reverses the similarity order.
C20_Witness ==
    /\ Returned /\ Descending(ret.rawHits) /\ ret.path = "reranked"
    /\ Len(ret.documents) = 2 /\ Len(ret.deduplicatedHits) >= 2
    /\ ret.documents[1].score > ret.documents[2].score
    /\ ret.documents[1].id = ret.deduplicatedHits[2].id
    /\ ret.deduplicatedHits[1].score > ret.deduplicatedHits[2].score

\* C21: for each distinct content among the raw hits the deduplicated hits
\* hold exactly one hit, it is one of the raw hits, and no raw hit with that
\* content has a higher score.
C21_DedupKeepsHighest ==
    ret.phase \in {"reranking", "done"} =>
        /\ \A i \in 1..Len(ret.rawHits) :
             Cardinality({ j \in 1..Len(ret.deduplicatedHits) :
                 ret.deduplicatedHits[j].content = ret.rawHits[i].content }) = 1
        /\ \A j \in 1..Len(ret.deduplicatedHits) :
             /\ \E i \in 1..Len(ret.rawHits) : ret.rawHits[i] = ret.deduplicatedHits[j]
             /\ \A i \in 1..Len(ret.rawHits) :
                  ret.rawHits[i].content = ret.deduplicatedHits[j].content
                      => ret.rawHits[i].score <= ret.deduplicatedHits[j].score

\* Three raw hits of one content, the last of them with the highest score.
C21_Witness ==
    /\ ret.phase = "done" /\ Len(ret.rawHits) = 3 /\ Len(ret.deduplicatedHits) = 1
    /\ ret.rawHits[1].score < ret.rawHits[3].score
    /\ ret.deduplicatedHits[1] = ret.rawHits[3]

InitHttp ==
    /\ cfgRerank = [useReRanker |-> FALSE, configured |-> FALSE]
    /\ ret = RetIdle
    /\ cls = ClsIdle
    /\ orch = OrchIdle
    /\ sum = SumIdle
    /\ http = HttpIdle
    /\ conc = ConcIdle
    /\ eq = EquivIdle
    /\ mr = MrIdle
    /\ ing = IngIdle
    /\ up = UpIdle

NextHttp ==
    \/ HttpReceive
    \/ HttpHandle
    \/ HttpAgentReturns
    \/ HttpAgentThrows

SpecHttp == InitHttp /\ [][NextHttp]_vars

(***************************************************************************)
(* Claims about the API server (under SpecHttp).                           *)
(***************************************************************************)
Responded == http.phase = "responded"

\* C22: every request gets a correlation identifier, the x-request-id header
\* of the request when there is one and a generated one otherwise, and the
\* response carries it in the X-Request-ID header and in the requestId field
\* of its body.
C22_RequestIdEchoed ==
    Responded =>
        /\ http.requestId = (IF http.header = "absent" THEN "generated" ELSE http.header)
        /\ http.res.header = http.requestId
        /\ http.res.requestId = http.requestId

\* C24: a body that fails validation is answered 400 'Invalid request' with
\* details and without any agent call; every other response that is not a
\* success is 500 'Internal server error' with the correlation id.
C24_ErrorResponses ==
    Responded =>
        /\ http.body # "valid" =>
             /\ http.res.status = 400 /\ http.res.error = "Invalid request"
             /\ http.res.details /\ http.agents = <<>>
        /\ http.body = "valid" /\ http.res.status # 200 =>
             /\ http.res.status = 500 /\ http.res.error = "Internal server error"
             /\ http.res.requestId = http.requestId

InitNeeds ==
    /\ cfgRerank = [useReRanker |-> FALSE, configured |-> FALSE]
    /\ ret = RetIdle
    /\ cls = ClsIdle
    /\ orch = OrchIdle
    /\ sum = SumIdle
    /\ http = HttpIdle
    /\ conc = ConcIdle
    /\ eq = EquivIdle
    /\ mr = MrIdle
    /\ ing = IngIdle
    /\ up = UpIdle

NextNeeds ==
    \/ NeedsFirstCall
    \/ NeedsCallWithMore

SpecNeeds == InitNeeds /\ [][NextNeeds]_vars

(***************************************************************************)
(* Claims about needsSummarization (under SpecNeeds).                      *)
(***************************************************************************)
RECURSIVE CharsOf(_)
CharsOf(documents) ==
    IF documents = <<>> THEN 0
    ELSE (CASE Head(documents).content = 0 -> 32001
            [] Head(documents).content = -1 -> NearLongDocChars
            [] OTHER -> ShortDocChars) + CharsOf(Tail(documents))

\* C15: needsSummarization is true exactly when there are more than 10
\* documents, or the complexity is 'complex' and there are more than 5, or
\* the total of content characters divided by 4 exceeds 8000.
C15_NeedsSummarizationIff ==
    sum.phase = "called" =>
        (sum.needs <=>
            \/ Len(sum.documents) > 10
            \/ sum.complexity = "complex" /\ Len(sum.documents) > 5
            \/ CharsOf(sum.documents) > 4 * 8000)

\* One document of 32001 characters: a quarter of it is just above 8000.
C15_Witness ==
    /\ sum.phase = "called" /\ Len(sum.documents) = 1
    /\ sum.documents[1].content = 0 /\ sum.complexity = "simple"
    /\ sum.needs

\* C16: for a fixed complexity, once needsSummarization is true of a list it
\* is true of the list with a document added, and it is true of every list of
\* more than 10 documents.
C16_MonotonicInCount ==
    [][ /\ (sum.phase = "called" /\ sum.needs => sum'.needs)
        /\ (Len(sum.documents) <= 10 /\ Len(sum'.documents) > 10 => sum'.needs) ]_vars

\* The tenth document did not need summarization, the eleventh does.
C16_Witness ==
    /\ sum.phase = "called" /\ Len(sum.documents) = 11 /\ sum.needs
    /\ ~NeedsSummarization(SubSeq(sum.documents, 1, 10), sum.complexity)

\* Every attempt ends: the API call settles or, after OPENAI_TIMEOUT_MS, the
\* timer rejects the race; pRetry's back-off between attempts is finite.
FairSpecClassify == SpecClassify /\ WF_vars(ClassifyAttemptReturns)

(***************************************************************************)
(* Claims about classifyQuestion (under SpecClassify).                     *)
(***************************************************************************)
\* C4: classifyQuestion never throws: whatever the chat-model calls do, it
\* ends by returning a Classification, and when no valid payload was obtained
\* the result is category 'general' with complexity 'moderate'.
C4_ClassifierNeverThrows ==
    /\ cls.phase \in {"idle", "calling", "done"}
    /\ cls.phase = "calling" => ENABLED ClassifyAttemptReturns
    /\ cls.phase = "done" =>
         /\ cls.result.category \in Categories
         /\ cls.result.complexity \in Complexities
         /\ cls.validated = NoPayload =>
              cls.result.category = "general" /\ cls.result.complexity = "moderate"

\* Both rounds used up: eight failed calls, the last of them in the strict round.
C4_Witness ==
    /\ cls.phase = "done" /\ cls.validated = NoPayload
    /\ cls.strict /\ cls.failures = MaxClassifierCalls
    /\ cls.result.reasoning = "Fallback classification"

\* The first call returned text that is not JSON and nothing else has failed.
MalformedOnce == cls.failures = 1 /\ cls.firstFailure = "badJson"

\* C12 as stated: malformed JSON once and then a valid payload gives a
\* Classification equal to that payload, without fallback substitution.
C12_RetryResultIsPayload ==
    cls.phase = "done" /\ MalformedOnce /\ cls.validated # NoPayload =>
        cls.result = cls.validated

\* C12 amended: after one malformed reply the classifier calls again rather
\* than fall back, and a valid payload on that retry is returned unchanged
\* when its confidence is at least 0.6; below 0.6 the low-confidence default
\* replaces its category and complexity.
C12_RetryResultIsCalibratedPayload ==
    /\ MalformedOnce /\ cls.validated = NoPayload =>
         cls.phase = "calling" /\ cls.attempt = 2 /\ ~cls.strict
    /\ cls.phase = "done" /\ MalformedOnce /\ cls.validated # NoPayload =>
         IF cls.validated.confidence >= 6
         THEN cls.result = cls.validated
         ELSE /\ cls.result.category = "general"
              /\ cls.result.complexity = "moderate"
              /\ cls.result.confidence = cls.validated.confidence
              /\ cls.result.reasoning = "Low confidence fallback"

C12_Witness ==
    /\ cls.phase = "done" /\ MalformedOnce /\ cls.calls = 2
    /\ cls.validated.confidence = 9 /\ cls.validated.category = "hr"
    /\ cls.result = cls.validated

\* C14: a validated payload with confidence below 0.6 is replaced by the
\* default 'general'/'moderate' whatever its category and complexity; with
\* confidence at least 0.6 the result has the payload's category and
\* complexity.
C14_ConfidenceCalibration ==
    cls.phase = "done" /\ cls.validated # NoPayload =>
        IF cls.validated.confidence < 6
        THEN cls.result.category = "general" /\ cls.result.complexity = "moderate"
        ELSE /\ cls.result.category = cls.validated.category
             /\ cls.result.complexity = cls.validated.complexity

\* A payload at the threshold keeps its labels.
C14_Witness ==
    /\ cls.phase = "done" /\ cls.validated.confidence = 6
    /\ cls.validated.category = "hr" /\ cls.validated.complexity = "complex"
    /\ cls.result.category = "hr" /\ cls.result.complexity = "complex"

\* C17: each external call of a request has completed before the next one
\* starts: at no time are two calls of the request in flight, also after a
\* classifier timeout.
C17_OneCallInFlight == CallsInFlight(cls) <= 1

\* C27: classifyQuestion terminates: once called it eventually returns a
\* Classification, also when no chat-model call ever answers.
C27_ClassifierTerminates == (cls.phase = "calling") ~> (cls.phase = "done")

\* Eight calls, none of which answered: the fallback is returned while all of
\* them are still pending.
C27_Witness ==
    /\ cls.phase = "done" /\ cls.calls = MaxClassifierCalls
    /\ cls.abandoned = MaxClassifierCalls
    /\ cls.result = CreateFallbackResult("Fallback classification")

(***************************************************************************)
(* The orchestrators: SimpleRAGOrchestrator.execute ("simple") and         *)
(* RAGOrchestrator.execute over the mock state graph ("langgraph").        *)
(***************************************************************************)
MaxDocs == 16               \* most documents the index returns in pipeline runs
DEFAULT_MAX_RESULTS == 6

Variants == {"simple", "langgraph"}

\* options.maxResults: 0 stands for an absent option.
MaxResultsOptions == {0, 3, MaxDocs}

\* options.maxResults || 6
DesiredCount(maxResults) == IF maxResults = 0 THEN DEFAULT_MAX_RESULTS ELSE maxResults

\* The classifier replies of the pipeline runs: the first n calls return text
\* that is not JSON, the later ones a valid payload.
OrchPayloads ==
    [category : {"hr", "general"}, complexity : Complexities, confidence : {5, 9},
     reasoning : {"model reasoning"}]

ClassifierScripts ==
    { [i \in 1..MaxClassifierCalls |-> IF i <= n THEN Failure("badJson") ELSE Valid(p)] :
        n \in {0, 1, MaxClassifierCalls}, p \in OrchPayloads }

\* classifyQuestion as the orchestrator sees it.
ClassifyQuestion(question, script) == ClassifyRun(ClsStarted(question), script).result

\* The chat-model calls that run of classifyQuestion issued.
ClassifierCalls(question, script) == ClassifyRun(ClsStarted(question), script).calls

\* The hit lists of the pipeline runs: n hits of distinct contents, the first
\* of them the long text when `long`.
OrchHitLists(limit) ==
    { [i \in 1..n |-> MkHit(i, IF long /\ i = 1 THEN 0 ELSE i, 2)] :
        n \in 0..Min(limit, MaxDocs), long \in BOOLEAN }

\* The reranker replies of the pipeline runs: a network error, or all n
\* documents in reverse order.
OrchRerankReplies(n) ==
    { [kind |-> "networkError", results |-> <<>>],
      [kind |-> "ok", results |-> [i \in 1..n |-> [index |-> n - i, score |-> 3]]] }

\* catch (error) { throw new Error(`Orchestration failed: ${error.message}`) }
RethrowUnwrapped(o, stageError) ==
    [o EXCEPT !.pc = "FAILED", !.stageError = stageError, !.error = stageError]

Rethrow(o, stageError) ==
    [o EXCEPT !.pc = "FAILED", !.stageError = stageError,
              !.error = <<"Orchestration failed">> \o stageError]

\* The stage after the summarization check: line 86 of the simple
\* orchestrator; shouldSummarize and the guard of summariseNode in the graph.
RouteBackToRetrieve(shouldSummarize, documents) ==
    IF shouldSummarize /\ Len(documents) > 0 THEN "summarize" ELSE "retrieve"

Route(shouldSummarize, documents) ==
    IF shouldSummarize /\ Len(documents) > 0 THEN "summarize" ELSE "answer"

\* Lines 102-111 (answerNode lines 461-470): the summary when there is one,
\* otherwise the documents.
AnswerInputWithDocuments(o) ==
    [hasDocuments |-> TRUE, documents |-> o.documents,
     hasSummary |-> Truthy(o.summarizedContext),
     summarizedContext |-> o.summarizedContext,
     includeText |-> o.includeText, category |-> o.classification.category]

AnswerInput(o) ==
    IF Truthy(o.summarizedContext)
    THEN [hasDocuments |-> FALSE, documents |-> <<>>, hasSummary |-> TRUE,
          summarizedContext |-> o.summarizedContext,
          includeText |-> o.includeText, category |-> o.classification.category]
    ELSE [hasDocuments |-> TRUE, documents |-> o.documents, hasSummary |-> FALSE,
          summarizedContext |-> <<>>,
          includeText |-> o.includeText, category |-> o.classification.category]

\* Lines 117-135 (lines 531-549 of the graph orchestrator).
BuildResult(o, answer) ==
    [answer |-> answer.answer, citations |-> answer.citations,
     category |-> o.classification.category,
     complexity |-> o.classification.complexity,
     documentsRetrieved |-> Len(o.documents),
     usedSummarization |-> Truthy(o.summarizedContext)]

\* execute() is called: classifyQuestion is invoked.
Execute ==
    /\ orch.pc = "idle"
    /\ \E v \in Variants, q \in {<<" ">>, <<"q">>}, m \in MaxResultsOptions,
          t \in {"undefined", "false"} :
         orch' = [orch EXCEPT !.pc = "classify", !.variant = v, !.question = q,
                              !.maxResults = m, !.includeText = t,
                              !.stages = <<"START">>, !.calls = <<"classify">>]
    /\ UNCHANGED <<cfgRerank, ret, cls, sum, http, conc, eq, mr, ing, up>>

\* Step 1 ends; step 2 invokes retrieveDocuments.
OrchClassifyReturns ==
    /\ orch.pc = "classify"
    /\ \E script \in ClassifierScripts :
         orch' = [orch EXCEPT !.pc = "retrieve",
                              !.classification = ClassifyQuestion(orch.question, script),
                              !.external.classify =
                                  ClassifierCalls(orch.question, script),
                              !.stages = Append(@, "Classified"),
                              !.calls = Append(@, "retrieve")]
    /\ UNCHANGED <<cfgRerank, ret, cls, sum, http, conc, eq, mr, ing, up>>

\* retrieveDocuments throws (embedding or search failed).
OrchRetrieveThrows ==
    /\ orch.pc = "retrieve"
    /\ orch' = Rethrow([orch EXCEPT !.external.embed = @ + 1],
                       <<"Document retrieval failed", "embedding failed">>)
    /\ UNCHANGED <<cfgRerank, ret, cls, sum, http, conc, eq, mr, ing, up>>

\* Step 2 ends; step 3 decides on summarization and the next stage is invoked.
OrchRetrieveReturns ==
    /\ orch.pc = "retrieve"
    /\ LET k == DesiredCount(orch.maxResults)
           useReRanker == UseReRanker("undefined", cfgRerank)
       IN  \E raw \in OrchHitLists(SearchLimit(useReRanker, k)) :
           \E reply \in IF useReRanker /\ Len(raw) > 0 /\ RerankerAvailable(cfgRerank)
                        THEN OrchRerankReplies(Len(raw)) ELSE {NoReply} :
             LET documents == RetrieveDocuments(raw, k, useReRanker, cfgRerank, reply, 0)
                 should == NeedsSummarization(documents, orch.classification.complexity)
                 next == Route(should, documents)
                 o == [orch EXCEPT !.pc = next, !.documents = documents,
                                   !.shouldSummarize = should,
                                   !.external.embed = @ + 1,
                                   !.external.search = @ + 1,
                                   !.external.rerank =
                                       IF reply = NoReply THEN @ ELSE @ + 1,
                                   !.stages = @ \o <<"Retrieved", "SummarizationDecided">>,
                                   !.calls = Append(@, next)]
             IN  orch' = IF next = "answer"
                         THEN [o EXCEPT !.answerInput = AnswerInput(o)]
                         ELSE o
    /\ UNCHANGED <<cfgRerank, ret, cls, sum, http, conc, eq, mr, ing, up>>

\* Step 4 ends: the summary is kept and generateAnswer is invoked, or the
\* error of summarizeDocuments is rethrown.
OrchSummarizeReturns ==
    /\ orch.pc = "summarize"
    /\ \E reply \in ChatReplies :
         LET summary == SummarizeDocuments(reply)
             called == [orch EXCEPT !.external.summarize =
                                        @ + SummarizerCalls(orch.documents)]
             o == [called EXCEPT !.pc = "answer",
                               !.summarizedContext = summary.summarizedContext,
                               !.stages = Append(@, "Summarized"),
                               !.calls = Append(@, "answer")]
         IN  orch' = IF summary.ok
                     THEN [o EXCEPT !.answerInput = AnswerInput(o)]
                     ELSE Rethrow(called, summary.error)
    /\ UNCHANGED <<cfgRerank, ret, cls, sum, http, conc, eq, mr, ing, up>>

\* Step 5 ends: the result is returned, or the error of generateAnswer (in the
\* graph orchestrator also a missing answer, lines 526-529) is rethrown.
OrchAnswerReturns ==
    /\ orch.pc = "answer"
    /\ \E reply \in ChatReplies :
         LET answer == GenerateAnswer(orch.answerInput, reply)
             called == [orch EXCEPT !.external.answer = @ + 1]
             done == [called EXCEPT !.pc = "DONE",
                                    !.stages = @ \o <<"Answered", "DONE">>,
                                    !.result = BuildResult(orch, answer)]
         IN  orch' = IF ~answer.ok
                     THEN Rethrow(called, answer.error)
                     ELSE IF orch.variant = "langgraph" /\ ~Truthy(answer.answer)
                     THEN Rethrow([called EXCEPT !.stages = Append(@, "Answered")],
                                  <<"No answer generated">>)
                     ELSE done
    /\ UNCHANGED <<cfgRerank, ret, cls, sum, http, conc, eq, mr, ing, up>>

InitOrch ==
    /\ cfgRerank \in { [useReRanker |-> FALSE, configured |-> FALSE],
                       [useReRanker |-> TRUE, configured |-> TRUE] }
    /\ ret = RetIdle
    /\ cls = ClsIdle
    /\ orch = OrchIdle
    /\ sum = SumIdle
    /\ http = HttpIdle
    /\ conc = ConcIdle
    /\ eq = EquivIdle
    /\ mr = MrIdle
    /\ ing = IngIdle
    /\ up = UpIdle

NextOrch ==
    \/ Execute
    \/ OrchClassifyReturns
    \/ OrchRetrieveThrows
    \/ OrchRetrieveReturns
    \/ OrchSummarizeReturns
    \/ OrchAnswerReturns

SpecOrch == InitOrch /\ [][NextOrch]_vars

(***************************************************************************)
(* Claims about the orchestrators (under SpecOrch).                        *)
(***************************************************************************)
Retrieved == \E i \in 1..Len(orch.stages) : orch.stages[i] = "Retrieved"
Invoked(agent) == \E i \in 1..Len(orch.calls) : orch.calls[i] = agent
Done == orch.pc = "DONE"
Failed == orch.pc = "FAILED"

\* C5: when retrieval returns no document the answerer is never invoked, and
\* no answer with citations is returned for such a run.
C5_NoAnswererOnEmptyRetrieval ==
    Retrieved /\ Len(orch.documents) = 0 => ~Invoked("answer")

\* The decision of needsSummarization, spelled out: more than 10 documents,
\* or a complex question with more than 5, or more than 8000 estimated tokens
\* (a quarter of the characters, rounded up).
SummarizationNeeded ==
    LET n == Len(orch.documents)
        chars == TotalChars(orch.documents)
    IN  \/ n > 10
        \/ orch.classification.complexity = "complex" /\ n > 5
        \/ chars > 4 * 8000

\* C6: in every returned result usedSummarization is true exactly when
\* needsSummarization was true of the retrieved documents and the classified
\* complexity; 15 documents with complexity 'complex' give true.
C6_UsedSummarizationIffNeeded ==
    Done =>
        /\ orch.result.usedSummarization = SummarizationNeeded
        /\ orch.result.usedSummarization = orch.shouldSummarize
        /\ Len(orch.documents) = 15 /\ orch.result.complexity = "complex"
             => orch.result.usedSummarization

C6_Witness ==
    /\ Done /\ Len(orch.documents) = 15 /\ orch.result.complexity = "complex"
    /\ orch.result.usedSummarization
    /\ orch.result.documentsRetrieved = 15

IsPrefix(s, t) == Len(s) <= Len(t) /\ s = SubSeq(t, 1, Len(s))

DirectStages ==
    <<"START", "Classified", "Retrieved", "SummarizationDecided", "Answered", "DONE">>
SummarizedStages ==
    <<"START", "Classified", "Retrieved", "SummarizationDecided", "Summarized",
      "Answered", "DONE">>

\* C7: a run visits START, Classified, Retrieved, SummarizationDecided,
\* optionally Summarized, Answered, DONE in this order, each at most once and
\* never an earlier one again; each agent is invoked at most once, in the
\* order classify, retrieve, (summarize,) answer; Summarized is visited only
\* when the decision was to summarize.
C7_LinearStages ==
    /\ IsPrefix(orch.stages, DirectStages) \/ IsPrefix(orch.stages, SummarizedStages)
    /\ \/ IsPrefix(orch.calls, <<"classify", "retrieve", "answer">>)
       \/ IsPrefix(orch.calls, <<"classify", "retrieve", "summarize", "answer">>)
    /\ Invoked("summarize") => orch.shouldSummarize
    /\ Done => orch.stages \in {DirectStages, SummarizedStages}
    /\ Done => (orch.stages = SummarizedStages <=> orch.shouldSummarize)

C7_Witness ==
    /\ Done /\ orch.stages = SummarizedStages /\ orch.variant = "langgraph"
    /\ orch.calls = <<"classify", "retrieve", "summarize", "answer">>

\* The message with which each agent throws.
StageMessage(agent) ==
    CASE agent = "retrieve" -> "Document retrieval failed"
      [] agent = "summarize" -> "Summarization failed"
      [] agent = "answer" -> "Answer generation failed"
      [] OTHER -> "none"

\* C8: when a stage throws, no later stage is invoked, no result is returned
\* and the error thrown is 'Orchestration failed: ' followed by the message of
\* the stage that threw.
C8_StageFailureFailsRequest ==
    Failed =>
        /\ orch.result = NoResult
        /\ ~ENABLED NextOrch
        /\ orch.stageError # <<>>
        /\ orch.error = <<"Orchestration failed">> \o orch.stageError
        /\ orch.stageError # <<"No answer generated">> =>
             orch.stageError[1] = StageMessage(orch.calls[Len(orch.calls)])

\* The summariser threw: the answerer was not invoked.
C8_Witness ==
    /\ Failed /\ orch.stageError[1] = "Summarization failed"
    /\ orch.calls = <<"classify", "retrieve", "summarize">>
    /\ Len(orch.documents) > 0

\* C9: a chat reply without content makes generateAnswer fail the request,
\* and every returned result carries a non-empty answer.
C9_AnswerNeverEmpty ==
    Done => orch.result.answer # <<>>

\* C10: when summarization was used the citations are exactly the one
\* placeholder citation with id 'summarized'.
C10_SummaryHasOnePlaceholderCitation ==
    Done /\ orch.result.usedSummarization =>
        /\ Len(orch.result.citations) = 1
        /\ orch.result.citations[1].id = <<"summarized", 0>>
        /\ orch.result.citations = <<SummaryCitation>>
        /\ \A i \in 1..Len(orch.documents) :
             \A j \in 1..Len(orch.result.citations) :
               orch.result.citations[j].id # orch.documents[i].id

C10_Witness ==
    /\ Done /\ orch.result.usedSummarization
    /\ Len(orch.documents) > 10
    /\ Len(orch.result.citations) = 1

\* The citation markers of a text, in order.
RECURSIVE MarkersOf(_)
MarkersOf(text) ==
    IF text = <<>> THEN <<>>
    ELSE IF MarkerIndex(Head(text)) > 0
    THEN <<MarkerIndex(Head(text))>> \o MarkersOf(Tail(text))
    ELSE MarkersOf(Tail(text))

\* C11: in every direct (non-summarized) answer returned, the citation markers
\* [n] of the answer text are no more than the returned citations, and every
\* n lies in 1..number of citations.
C11_MarkersWithinCitations ==
    Done /\ ~orch.result.usedSummarization =>
        LET markers == MarkersOf(orch.result.answer)
        IN  /\ Len(markers) <= Len(orch.result.citations)
            /\ \A i \in 1..Len(markers) :
                  markers[i] \in 1..Len(orch.result.citations)

\* C13 as stated: the classifier issues at most two chat-model calls for one
\* question, and the retriever (embedding, search), the reranker, the
\* summarizer and the answerer issue each of their calls at most once.
C13_AtMostOneRetry ==
    /\ orch.external.classify <= 2
    /\ orch.external.embed <= 1 /\ orch.external.search <= 1
    /\ orch.external.rerank <= 1
    /\ orch.external.summarize <= 1 /\ orch.external.answer <= 1

\* C13 amended: the classifier issues at most eight chat-model calls for one
\* question (two rounds of one attempt and three retries each); every other
\* stage issues each of its calls at most once.
C13_BoundedClassifierRetries ==
    /\ orch.external.classify <= 8
    /\ orch.external.embed <= 1 /\ orch.external.search <= 1
    /\ orch.external.rerank <= 1
    /\ orch.external.summarize <= 1 /\ orch.external.answer <= 1

\* A finished run in which every service was called and the classifier used
\* all of its eight calls.
C13_Witness ==
    /\ Done /\ orch.external.classify = 8
    /\ orch.external.embed = 1 /\ orch.external.search = 1
    /\ orch.external.rerank = 1
    /\ orch.external.summarize = 1 /\ orch.external.answer = 1

Summarized == \E i \in 1..Len(orch.stages) : orch.stages[i] = "Summarized"

C25_CitationsParallel ==
    Done /\ ~orch.result.usedSummarization =>
        /\ Len(orch.result.citations) = orch.result.documentsRetrieved
        /\ Len(orch.result.citations) = Len(orch.documents)
        /\ \A i \in 1..Len(orch.documents) :
              /\ orch.result.citations[i].id = orch.documents[i].id
              /\ orch.result.citations[i].score = orch.documents[i].score
              /\ orch.result.citations[i].filename = orch.documents[i].filename
              /\ orch.result.citations[i].category = orch.documents[i].category

C25_Witness ==
    /\ Done /\ ~orch.result.usedSummarization
    /\ Len(orch.documents) >= 2
    /\ Len(orch.result.citations) >= 2
    /\ orch.result.citations[1].id # orch.result.citations[2].id

(***************************************************************************)
(* Two concurrent executions (SpecConc).                                   *)
(***************************************************************************)
\* What reaches a request at each step: its input at the start, then the
\* outcome of the agent it awaits.
ConcEvents(pc) ==
    CASE pc = "idle" ->
           { [kind |-> "input", text |-> q, n |-> 0, label |-> "none"] :
               q \in {<<"q1">>, <<"q2">>} }
      [] pc = "classify" ->
           { [kind |-> "classified", text |-> <<>>, n |-> 0, label |-> c] :
               c \in {"simple", "complex"} }
      [] pc = "retrieve" ->
           { [kind |-> "retrieved", text |-> <<>>, n |-> n, label |-> "none"] :
               n \in {0, 4, 6, 11} }
           \cup { [kind |-> "threw", text |-> <<>>, n |-> 0, label |-> "none"] }
      [] pc \in {"summarize", "answer"} ->
           { [kind |-> "chat", text |-> t, n |-> 0, label |-> "none"] :
               t \in {<<>>, <<" ">>, <<"a">>, <<"b">>} }
      [] OTHER -> {}

\* One step of execute on its frame o: lines 56-151 of the sequential
\* orchestrator, from one await to the next.
Advance(o, event) ==
    CASE o.pc = "idle" ->
           [o EXCEPT !.pc = "classify", !.question = event.text]
      [] o.pc = "classify" ->
           [o EXCEPT !.pc = "retrieve",
                     !.classification =
                         [category |-> "general", complexity |-> event.label,
                          confidence |-> 9, reasoning |-> "model reasoning"]]
      [] o.pc = "retrieve" ->
           IF event.kind = "threw"
           THEN Rethrow(o, <<"Document retrieval failed", "embedding failed">>)
           ELSE LET documents == [i \in 1..event.n |-> MkHit(i, i, 2)]
                    should == NeedsSummarization(documents, o.classification.complexity)
                    next == [o EXCEPT !.pc = Route(should, documents),
                                      !.documents = documents,
                                      !.shouldSummarize = should]
                IN  IF next.pc = "answer"
                    THEN [next EXCEPT !.answerInput = AnswerInput(next)]
                    ELSE next
      [] o.pc = "summarize" ->
           LET summary == SummarizeDocuments([kind |-> "ok", content |-> event.text])
               next == [o EXCEPT !.pc = "answer",
                                 !.summarizedContext = summary.summarizedContext]
           IN  IF summary.ok
               THEN [next EXCEPT !.answerInput = AnswerInput(next)]
               ELSE Rethrow(o, summary.error)
      [] o.pc = "answer" ->
           LET answer == GenerateAnswer(o.answerInput,
                                        [kind |-> "ok", content |-> event.text])
           IN  IF answer.ok
               THEN [o EXCEPT !.pc = "DONE", !.result = BuildResult(o, answer)]
               ELSE Rethrow(o, answer.error)
      [] OTHER -> o

\* execute run alone on a history of events.
RECURSIVE RunAlone(_, _)
RunAlone(o, events) ==
    IF events = <<>> THEN o ELSE RunAlone(Advance(o, Head(events)), Tail(events))

\* The frame on which the execution of request r works.
FrameOfFirst(c, r) == c.frame[1]

FrameOf(c, r) == c.frame[r]

\* Request r is started or the agent it awaits settles, in any interleaving
\* with the other request.
ConcStep(r) ==
    /\ \E event \in ConcEvents(conc.frame[r].pc) :
         conc' = [conc EXCEPT !.instance = GetOrchestrator(@),
                              !.frame[r] = Advance(FrameOf(conc, r), event),
                              !.events[r] = Append(@, event)]
    /\ UNCHANGED <<cfgRerank, ret, cls, orch, sum, http, eq, mr, ing, up>>

InitConc ==
    /\ cfgRerank = [useReRanker |-> FALSE, configured |-> FALSE]
    /\ ret = RetIdle
    /\ cls = ClsIdle
    /\ orch = OrchIdle
    /\ sum = SumIdle
    /\ http = HttpIdle
    /\ conc = ConcIdle
    /\ eq = EquivIdle
    /\ mr = MrIdle
    /\ ing = IngIdle
    /\ up = UpIdle

NextConc == \E r \in 1..2 : ConcStep(r)

SpecConc == InitConc /\ [][NextConc]_vars

StateGraphAnswerInput(o) ==
    [hasDocuments |-> TRUE, documents |-> o.documents,
     hasSummary |-> Truthy(o.summarizedContext),
     summarizedContext |-> o.summarizedContext,
     includeText |-> o.includeText, category |-> o.classification.category]

\* One step of RAGOrchestrator.execute of `impl` ("mock" or "graph"): the
\* nodes do what the sequential steps do, except for the input of the
\* answerer in orchestrator.ts and the check of finalState.answer.
AdvanceGraph(impl, o, event) ==
    IF o.pc = "answer"
    THEN LET answer == GenerateAnswer(o.answerInput,
                                      [kind |-> "ok", content |-> event.text])
         IN  IF ~answer.ok THEN Rethrow(o, answer.error)
             ELSE IF ~Truthy(answer.answer) THEN Rethrow(o, <<"No answer generated">>)
             ELSE [o EXCEPT !.pc = "DONE", !.result = BuildResult(o, answer)]
    ELSE LET next == Advance(o, event)
         IN  IF next.pc = "answer" /\ impl = "graph"
             THEN [next EXCEPT !.answerInput = StateGraphAnswerInput(next)]
             ELSE next

\* The same event reaches the three orchestrators.
EquivStep ==
    /\ eq.simple.pc = eq.mock.pc /\ eq.simple.pc = eq.graph.pc
    /\ \E event \in ConcEvents(eq.simple.pc) :
         eq' = [simple |-> Advance(eq.simple, event),
                mock |-> AdvanceGraph("mock", eq.mock, event),
                graph |-> AdvanceGraph("graph", eq.graph, event)]
    /\ UNCHANGED <<cfgRerank, ret, cls, orch, sum, http, conc, mr, ing, up>>

InitEquiv ==
    /\ cfgRerank = [useReRanker |-> FALSE, configured |-> FALSE]
    /\ ret = RetIdle
    /\ cls = ClsIdle
    /\ orch = OrchIdle
    /\ sum = SumIdle
    /\ http = HttpIdle
    /\ conc = ConcIdle
    /\ eq = EquivIdle
    /\ mr = MrIdle
    /\ ing = IngIdle
    /\ up = UpIdle

NextEquiv == EquivStep

SpecEquiv == InitEquiv /\ [][NextEquiv]_vars

\* C26: on the same question, options and external replies the sequential
\* and the state-graph orchestrators are at the same stage, give the answerer
\* the same input (the summary without the documents when summarization ran)
\* and return the same result or both fail.
C26_SameFunctionality ==
    /\ eq.mock = eq.simple
    /\ eq.graph = eq.simple
    /\ eq.simple.pc = "answer" /\ eq.simple.summarizedContext # <<>> =>
         /\ ~eq.graph.answerInput.hasDocuments
         /\ ~eq.mock.answerInput.hasDocuments

(***************************************************************************)
(* mapReduceSummarize (SpecMapReduce): the documents are cut into chunks,  *)
(* each chunk is summarized by summarizeDocuments, and one more chat call  *)
(* combines the chunk summaries.                                           *)
(***************************************************************************)
MaxMapReduceDocs == 21

CHUNK_SIZE == 10

\* for (i = 0; i < documents.length; i += chunkSize) chunks.push(slice(i, i + chunkSize))
RECURSIVE ChunksFrom(_, _)
ChunksFrom(documents, i) ==
    IF i < Len(documents)
    THEN <<SubSeq(documents, i + 1, Min(i + CHUNK_SIZE, Len(documents)))>>
         \o ChunksFrom(documents, i + CHUNK_SIZE)
    ELSE <<>>

\* `for (const chunk of chunks) await summarizeDocuments(...)`: the call for
\* the next chunk is made when the previous call has returned.
MapStartableConcurrently(m) == m.pc = "map" /\ m.started < Len(m.chunks)

MapStartable(m) ==
    m.pc = "map" /\ m.started < Len(m.chunks) /\ m.started = m.completed

MapReduceCall ==
    /\ mr.pc = "idle"
    /\ \E n \in 0..MaxMapReduceDocs :
         LET documents == [i \in 1..n |-> i] IN
         mr' = [MrIdle EXCEPT !.pc = "map", !.documents = documents,
                              !.chunks = ChunksFrom(documents, 0)]
    /\ UNCHANGED <<cfgRerank, ret, cls, orch, sum, http, conc, eq, ing, up>>

MapChunkStarts ==
    /\ MapStartable(mr)
    /\ mr' = [mr EXCEPT !.started = @ + 1]
    /\ UNCHANGED <<cfgRerank, ret, cls, orch, sum, http, conc, eq, ing, up>>

\* The chunk's summarizeDocuments returns, or throws and ends the function.
MapChunkReturns ==
    /\ mr.pc = "map" /\ mr.completed < mr.started
    /\ \E reply \in ChatReplies :
         LET chunkResult == SummarizeDocuments(reply) IN
         mr' = IF chunkResult.ok
               THEN [mr EXCEPT !.completed = @ + 1,
                               !.chunkSummaries = Append(@, chunkResult.summarizedContext)]
               ELSE [mr EXCEPT !.pc = "threw", !.chunkFailed = TRUE,
                               !.error = chunkResult.error]
    /\ UNCHANGED <<cfgRerank, ret, cls, orch, sum, http, conc, eq, ing, up>>

\* After the loop: the combining chat call is made.
ReduceStarts ==
    /\ mr.pc = "map" /\ mr.completed = Len(mr.chunks)
    /\ mr' = [mr EXCEPT !.pc = "reduce", !.reduceCalls = @ + 1]
    /\ UNCHANGED <<cfgRerank, ret, cls, orch, sum, http, conc, eq, ing, up>>

ReduceReturns ==
    /\ mr.pc = "reduce"
    /\ \E reply \in ChatReplies :
         mr' = IF reply.kind = "error"
               THEN [mr EXCEPT !.pc = "threw", !.error = <<"chat completion failed">>]
               ELSE IF ~Truthy(reply.content)
               THEN [mr EXCEPT !.pc = "threw", !.error = <<"No summary generated">>]
               ELSE [mr EXCEPT !.pc = "done", !.summarizedContext = reply.content,
                               !.originalDocCount = Len(mr.documents)]
    /\ UNCHANGED <<cfgRerank, ret, cls, orch, sum, http, conc, eq, ing, up>>

InitMapReduce ==
    /\ cfgRerank = [useReRanker |-> FALSE, configured |-> FALSE]
    /\ ret = RetIdle
    /\ cls = ClsIdle
    /\ orch = OrchIdle
    /\ sum = SumIdle
    /\ http = HttpIdle
    /\ conc = ConcIdle
    /\ eq = EquivIdle
    /\ mr = MrIdle
    /\ ing = IngIdle
    /\ up = UpIdle

NextMapReduce ==
    \/ MapReduceCall
    \/ MapChunkStarts
    \/ MapChunkReturns
    \/ ReduceStarts
    \/ ReduceReturns

SpecMapReduce == InitMapReduce /\ [][NextMapReduce]_vars

RECURSIVE Flatten(_)
Flatten(chunks) ==
    IF chunks = <<>> THEN <<>> ELSE Head(chunks) \o Flatten(Tail(chunks))

\* C28: mapReduceSummarize on n >= 1 documents cuts them, in order, into
\* ceil(n/10) chunks of at most 10 documents, every document in exactly one
\* chunk; at most one chunk call is in progress at a time; the combining
\* call is made once, after every chunk call has returned a summary; the
\* result reports originalDocCount = n; a failed chunk call ends the
\* function without the combining call.
C28_MapReduceSequential ==
    mr.pc # "idle" /\ Len(mr.documents) >= 1 =>
        /\ Len(mr.chunks) = (Len(mr.documents) + 9) \div 10
        /\ \A k \in 1..Len(mr.chunks) : Len(mr.chunks[k]) \in 1..10
        /\ Flatten(mr.chunks) = mr.documents
        /\ mr.started - mr.completed \in {0, 1}
        /\ mr.reduceCalls <= 1
        /\ mr.reduceCalls = 1 =>
              /\ mr.completed = Len(mr.chunks)
              /\ Len(mr.chunkSummaries) = Len(mr.chunks)
        /\ mr.pc = "done" =>
              /\ mr.reduceCalls = 1
              /\ mr.originalDocCount = Len(mr.documents)
        /\ mr.chunkFailed => mr.pc = "threw" /\ mr.reduceCalls = 0

C28_Witness ==
    /\ mr.pc = "done" /\ Len(mr.documents) = 21
    /\ Len(mr.chunks) = 3 /\ Len(mr.chunks[3]) = 1
    /\ mr.completed = 3 /\ mr.reduceCalls = 1

(***************************************************************************)
(* The ingestion function (SpecIngest): ingestDocuments runs               *)
(* processDocument and then the index upload, each inside withRetry.       *)
(***************************************************************************)
\* withRetry is entered: attempt = 1 and the operation is called.
WithRetryCalled(maxRetries, delayMs) ==
    [NoRetry EXCEPT !.pc = "calling", !.maxRetries = maxRetries,
                    !.delayMs = delayMs, !.attempt = 1, !.calls = 1]

\* delayMs * Math.pow(2, attempt - 1)
BackoffDelayFixed(delayMs, attempt) == delayMs

BackoffDelay(delayMs, attempt) == delayMs * 2 ^ (attempt - 1)

\* The blob trigger fires; a file that is not .txt is skipped.
IngestCall ==
    /\ ing.pc = "idle"
    /\ \E isText \in BOOLEAN :
         ing' = IF isText
                THEN [ing EXCEPT !.pc = "process", !.retry = WithRetryCalled(3, 2000)]
                ELSE [ing EXCEPT !.pc = "skipped"]
    /\ UNCHANGED <<cfgRerank, ret, cls, orch, sum, http, conc, eq, mr, up>>

\* `return await operation()`
OperationResolves ==
    /\ ing.pc \in {"process", "upload"} /\ ing.retry.pc = "calling"
    /\ ing' = [ing EXCEPT !.retry.pc = "returned",
                           !.retry.result = <<"result", ing.retry.attempt>>]
    /\ UNCHANGED <<cfgRerank, ret, cls, orch, sum, http, conc, eq, mr, up>>

\* The catch block: lastError is kept; a wait follows while attempts are
\* left, otherwise the loop ends and lastError is thrown.
OperationRejects ==
    /\ ing.pc \in {"process", "upload"} /\ ing.retry.pc = "calling"
    /\ \E error \in {"timeout", "throttled", "unavailable"} :
         LET r == [ing.retry EXCEPT !.errors = Append(@, error)] IN
         ing' = IF r.attempt < r.maxRetries
                THEN [ing EXCEPT !.retry =
                        [r EXCEPT !.pc = "waiting",
                                  !.waits = Append(@, BackoffDelay(r.delayMs, r.attempt))]]
                ELSE [ing EXCEPT !.retry = [r EXCEPT !.pc = "threw", !.thrown = <<error>>]]
    /\ UNCHANGED <<cfgRerank, ret, cls, orch, sum, http, conc, eq, mr, up>>

\* The timer of the back-off fires: the next attempt calls the operation.
BackoffElapses ==
    /\ ing.pc \in {"process", "upload"} /\ ing.retry.pc = "waiting"
    /\ ing' = [ing EXCEPT !.retry.pc = "calling", !.retry.attempt = @ + 1,
                           !.retry.calls = @ + 1]
    /\ UNCHANGED <<cfgRerank, ret, cls, orch, sum, http, conc, eq, mr, up>>

\* ingestDocuments after an awaited withRetry: the upload follows the
\* processing, the function completes after the upload, and an error thrown
\* by withRetry is logged and thrown again.
IngestContinues ==
    /\ ing.pc \in {"process", "upload"} /\ ing.retry.pc \in {"returned", "threw"}
    /\ ing' = IF ing.retry.pc = "threw"
               THEN [ing EXCEPT !.pc = "failed", !.error = ing.retry.thrown]
               ELSE IF ing.pc = "process"
               THEN [ing EXCEPT !.pc = "upload", !.retry = WithRetryCalled(3, 2000)]
               ELSE [ing EXCEPT !.pc = "completed"]
    /\ UNCHANGED <<cfgRerank, ret, cls, orch, sum, http, conc, eq, mr, up>>

InitIngest ==
    /\ cfgRerank = [useReRanker |-> FALSE, configured |-> FALSE]
    /\ ret = RetIdle
    /\ cls = ClsIdle
    /\ orch = OrchIdle
    /\ sum = SumIdle
    /\ http = HttpIdle
    /\ conc = ConcIdle
    /\ eq = EquivIdle
    /\ mr = MrIdle
    /\ ing = IngIdle
    /\ up = UpIdle

NextIngest ==
    \/ IngestCall
    \/ OperationResolves
    \/ OperationRejects
    \/ BackoffElapses
    \/ IngestContinues

SpecIngest == InitIngest /\ [][NextIngest]_vars

\* C29: withRetry calls the operation at most maxRetries times; it returns
\* the result of the first call that succeeds, every earlier call having
\* failed; the wait after failed attempt i is delayMs * 2^(i-1); after
\* maxRetries failures it throws the last error; ingestDocuments fails with
\* that error and completes only when both operations succeeded.
C29_WithRetry ==
    LET r == ing.retry IN
    /\ r.calls <= r.maxRetries
    /\ r.pc = "calling" => Len(r.errors) = r.calls - 1 /\ Len(r.waits) = r.calls - 1
    /\ r.pc = "returned" =>
          /\ Len(r.errors) = r.calls - 1
          /\ r.result = <<"result", r.calls>>
    /\ \A i \in 1..Len(r.waits) : r.waits[i] = r.delayMs * 2 ^ (i - 1)
    /\ r.pc = "waiting" => Len(r.waits) = Len(r.errors) /\ r.calls < r.maxRetries
    /\ r.pc = "threw" =>
          /\ r.calls = r.maxRetries /\ Len(r.errors) = r.maxRetries
          /\ Len(r.waits) = r.maxRetries - 1
          /\ r.thrown = <<r.errors[r.maxRetries]>>
    /\ ing.pc = "failed" => r.pc = "threw" /\ ing.error = r.thrown
    /\ ing.pc = "completed" => r.pc = "returned"

\* An operation failed three times with different errors, after waits of
\* 2000 and 4000 ms, and the function failed with the last of them.
C29_Witness ==
    /\ ing.pc = "failed" /\ ing.retry.calls = 3
    /\ ing.retry.waits = <<2000, 4000>>
    /\ ing.retry.errors = <<"timeout", "throttled", "unavailable">>
    /\ ing.error = <<"unavailable">>

(***************************************************************************)
(* The upload service of the browser client (SpecUpload).                  *)
(***************************************************************************)
MaxFiles == 3

FilesWithStatus(u, status) == {i \in 1..Len(u.status) : u.status[i] = status}

\* uploadAllFiles() and the subscription of the caller.  pendingFiles.map
\* calls uploadFile for every pending file at once: each is marked
\* 'uploading'.  from(uploadObservables) then emits the uploads one after the
\* other synchronously and switchMap unsubscribes from each when the next
\* arrives, so that only the upload of the last pending file stays subscribed.
UploadAllFilesFrom(u) ==
    LET pendingFiles == FilesWithStatus(u, "pending") IN
    IF pendingFiles = {}
    THEN u
    ELSE [u EXCEPT !.status = [i \in 1..Len(u.status) |->
                                 IF i \in pendingFiles THEN "uploading" ELSE u.status[i]],
                   !.isUploading = TRUE,
                   !.error = <<>>,
                   !.active = @ \cup {CHOOSE i \in pendingFiles :
                                        \A j \in pendingFiles : j <= i}]

\* addFiles with one valid file.
AddFiles ==
    /\ Len(up.status) < MaxFiles
    /\ up' = [up EXCEPT !.status = Append(@, "pending")]
    /\ UNCHANGED <<cfgRerank, ret, cls, orch, sum, http, conc, eq, mr, ing>>

UploadAllFiles ==
    /\ up' = UploadAllFilesFrom(up)
    /\ UNCHANGED <<cfgRerank, ret, cls, orch, sum, http, conc, eq, mr, ing>>

\* The subscribed upload of file i ends: the blob is stored, the upload
\* fails, or no SAS token is obtained.
UploadSettles ==
    /\ \E i \in up.active, outcome \in {"stored", "uploadFailed", "noSasToken"} :
         up' = IF outcome = "stored"
               THEN [up EXCEPT !.status[i] = "completed", !.isUploading = FALSE,
                               !.active = @ \ {i}]
               ELSE [up EXCEPT !.status[i] = "error", !.isUploading = FALSE,
                               !.error = <<outcome>>, !.active = @ \ {i}]
    /\ UNCHANGED <<cfgRerank, ret, cls, orch, sum, http, conc, eq, mr, ing>>

\* retryFailedUploads: the failed files become pending, then uploadAllFiles.
RetryFailedUploads ==
    /\ FilesWithStatus(up, "error") # {}
    /\ up' = UploadAllFilesFrom(
                [up EXCEPT !.status = [i \in 1..Len(up.status) |->
                                         IF up.status[i] = "error" THEN "pending"
                                         ELSE up.status[i]]])
    /\ UNCHANGED <<cfgRerank, ret, cls, orch, sum, http, conc, eq, mr, ing>>

InitUpload ==
    /\ cfgRerank = [useReRanker |-> FALSE, configured |-> FALSE]
    /\ ret = RetIdle
    /\ cls = ClsIdle
    /\ orch = OrchIdle
    /\ sum = SumIdle
    /\ http = HttpIdle
    /\ conc = ConcIdle
    /\ eq = EquivIdle
    /\ mr = MrIdle
    /\ ing = IngIdle
    /\ up = UpIdle

NextUpload ==
    \/ AddFiles
    \/ UploadAllFiles
    \/ UploadSettles
    \/ RetryFailedUploads

SpecUpload == InitUpload /\ [][NextUpload]_vars

\* C30: uploadAllFiles uploads the pending files one at a time: at most one
\* file is 'uploading' at any time, no file is left 'uploading' once the
\* subscribed uploads have ended, and isUploading is false only when no
\* file is 'uploading'.
C30_SequentialUploads ==
    /\ Cardinality(FilesWithStatus(up, "uploading")) <= 1
    /\ up.active = {} => FilesWithStatus(up, "uploading") = {}
    /\ ~up.isUploading => FilesWithStatus(up, "uploading") = {}

============================================================================
